---- MODULE Spec2Model ----
(***************************************************************************)
(* Model of src/server.py: the coroutine run_command(command), run as      *)
(* independent tasks on one asyncio event loop.  An invocation is split at *)
(* its two await points (create_subprocess_shell, process.communicate);    *)
(* between two awaits its code runs atomically, as it does on the loop.    *)
(* The child processes and the completion of the awaited operations are    *)
(* the environment.                                                        *)
(***************************************************************************)
EXTENDS Integers, Sequences, FiniteSets, TLC

\* ---------------------------------------------------------------- bounds
MaxInv == 2            \* invocations issued in one run of the server
MaxBytes == 2          \* bytes the children write in total to their pipes

Inv == 1..MaxInv
None == "None"
NoProcess == [none |-> TRUE]      \* no process handle yet
NoFault == [cls |-> "none", at |-> "none", desc |-> <<>>]   \* no fault raised
StillRunning == [how |-> "running"]

\* Commands the caller passes.  What a child writes and how it terminates is
\* up to the shell and the programs it starts; the child of a command that
\* loops forever (`yes`, `sleep infinity`) never terminates.
Commands == {"script", "loop_forever"}
NeverTerminating == {"loop_forever"}

\* Bytes the children write: 'a', and the two bytes of U+00E9 in UTF-8.
Bytes == {97, 195, 169}

\* Ways a child terminates: exit(code), or death by a signal.
ExitCodes == {0, 1}
Signals == {1, 9}
Terminations ==
  [how : {"exit"}, n : ExitCodes] \cup [how : {"signal"}, n : Signals]

\* ---------------------------------------------------------------- faults
\* Python's hierarchy: the classes below derive from Exception.
ExceptionClasses ==
  {"FileNotFoundError", "PermissionError", "MemoryError", "UnicodeDecodeError"}

\* Faults of create_subprocess_shell: desc is str(e), abstracted to an errno.
SpawnFaults ==
  { [cls |-> "FileNotFoundError", at |-> "spawn", desc |-> <<2>>],
    [cls |-> "PermissionError", at |-> "spawn", desc |-> <<1, 3>>] }

\* Faults of process.communicate (reading the pipes into memory).
CommunicateFaults ==
  { [cls |-> "MemoryError", at |-> "communicate", desc |-> <<>>] }

\* ------------------------------------------------------------- bytes.decode
\* UnicodeDecodeError: str(e) names the byte, its position and the reason.
DecodeFault(byte, pos, reason) ==
  [cls |-> "UnicodeDecodeError", at |-> "decode", desc |-> <<byte, pos, reason>>]

InvalidStart == 1000
InvalidContinuation == 1001
UnexpectedEnd == 1002

\* bytes.decode(): strict UTF-8, one- and two-byte forms (bytes below 0xE0).
\* pos is 1-based here; the reported position is 0-based as in Python.
RECURSIVE Utf8Decode(_, _, _)
Utf8Decode(b, pos, acc) ==
  IF pos > Len(b) THEN [ok |-> TRUE, text |-> acc]
  ELSE LET c == b[pos] IN
    IF c < 128 THEN Utf8Decode(b, pos + 1, Append(acc, c))
    ELSE IF c < 194 \/ c > 223 THEN
      [ok |-> FALSE, fault |-> DecodeFault(c, pos - 1, InvalidStart)]
    ELSE IF pos + 1 > Len(b) THEN
      [ok |-> FALSE, fault |-> DecodeFault(c, pos - 1, UnexpectedEnd)]
    ELSE IF b[pos + 1] < 128 \/ b[pos + 1] > 191 THEN
      [ok |-> FALSE, fault |-> DecodeFault(c, pos - 1, InvalidContinuation)]
    ELSE Utf8Decode(b, pos + 2, Append(acc, (c - 192) * 64 + (b[pos + 1] - 128)))

\* Variant: the bytes are taken as Latin-1, one character per byte.
DecodeLatin1(b) == [ok |-> TRUE, text |-> b]

\* `x.decode() if x else ""`
DecodeOrEmpty(b) ==
  IF b # <<>> THEN Utf8Decode(b, 1, <<>>) ELSE [ok |-> TRUE, text |-> <<>>]

\* "Error executing command: "
ErrPrefix ==
  <<69, 114, 114, 111, 114, 32, 101, 120, 101, 99, 117, 116, 105, 110, 103, 32,
    99, 111, 109, 109, 97, 110, 100, 58, 32>>

\* ------------------------------------------------------------------ state
VARIABLES pc,  \* where each invocation is: idle, spawning, running, completed, failed, raised
  command,   \* the command each invocation was called with
  process,   \* the child each invocation spawned (the local `process`), or None
  results,   \* the result mappings each invocation has returned to its caller
  caught,    \* the fault each invocation raised inside the try block, or None
  attempts   \* calls of create_subprocess_shell each invocation has made

vars == <<pc, command, process, results, caught, attempts>>

Init ==
  /\ pc = [i \in Inv |-> "idle"]
  /\ command = [i \in Inv |-> None]
  /\ process = [i \in Inv |-> NoProcess]
  /\ results = [i \in Inv |-> <<>>]
  /\ caught = [i \in Inv |-> NoFault]
  /\ attempts = [i \in Inv |-> 0]

\* process.returncode: the exit code, or minus the number of the killing signal.
Returncode(p) ==
  IF p.term = StillRunning THEN None
  ELSE IF p.term.how = "exit" THEN p.term.n ELSE 0 - p.term.n

\* Bytes written so far to the pipes of all children.
RECURSIVE Written(_)
Written(n) ==
  IF n = 0 THEN 0
  ELSE Written(n - 1) +
       (IF process[n] = NoProcess THEN 0
        ELSE Len(process[n].out) + Len(process[n].err))

\* Variant: only the child's exit is awaited, as process.wait() does.
CommunicateDoneExitOnly(p) == p.term # StillRunning

\* Variant: only the pipes are drained, the child is not waited for.
CommunicateDoneEOFOnly(p) == p.outEOF /\ p.errEOF

\* communicate() returns once both pipes are at end-of-stream and the child
\* has been waited for.
CommunicateDone(p) == p.outEOF /\ p.errEOF /\ p.term # StillRunning

\* Variant: the handle is kept in a module-level global set by the first spawn.
ProcShared(i) ==
  IF \E j \in Inv : process[j] # NoProcess
    THEN process[CHOOSE j \in Inv :
                   process[j] # NoProcess /\ \A k \in Inv : k < j => process[k] = NoProcess]
    ELSE process[i]

\* The coroutine's local `process`.
Proc(i) == process[i]

\* Variant: a blocking call (subprocess.run in a plain def): while an earlier
\* invocation waits, the loop runs nothing else.
RunnableBlocking(i) ==
  /\ pc[i] \in {"spawning", "running"}
  /\ \A j \in Inv : j < i => pc[j] \notin {"spawning", "running"}

\* A task suspended at an await is resumed when what it awaits is done,
\* whatever the other tasks are waiting for.
Runnable(i) == pc[i] \in {"spawning", "running"}

\* Variant: `except OSError as e`
IsCaughtOSError(e) == e.cls \in {"FileNotFoundError", "PermissionError"}

\* `except Exception as e`
IsCaught(e) == e.cls \in ExceptionClasses

\* Variant: the except branch reports what was already known of the child.
ErrorResultPartial(i, e) ==
  [stdout |-> IF process[i] # NoProcess /\ DecodeOrEmpty(process[i].out).ok
                THEN DecodeOrEmpty(process[i].out).text ELSE <<>>,
   stderr |-> ErrPrefix \o e.desc,
   return_code |-> IF process[i] # NoProcess /\ process[i].term # StillRunning
                     THEN Returncode(process[i]) ELSE -1]

\* The mapping of the except branch.
ErrorResult(i, e) ==
  [stdout |-> <<>>, stderr |-> ErrPrefix \o e.desc, return_code |-> -1]

\* Stdout returned so far by the invocations 1..n.
RECURSIVE Accumulated(_)
Accumulated(n) ==
  IF n = 0 THEN <<>>
  ELSE Accumulated(n - 1) \o
       (IF pc[n] = "completed" THEN results[n][1].stdout ELSE <<>>)

\* Variant: stdout is appended to a buffer shared by all invocations.
NormalResultAccum(i, out, err) ==
  [stdout |-> Accumulated(MaxInv) \o out, stderr |-> err,
   return_code |-> Returncode(Proc(i))]

\* The mapping of the normal return.
NormalResult(i, out, err) ==
  [stdout |-> out, stderr |-> err, return_code |-> Returncode(Proc(i))]

\* Variant: a fault of the spawn makes the invocation start over.
RaiseRetry(i, e) ==
  /\ caught' = [caught EXCEPT ![i] = e]
  /\ IF e.at = "spawn"
       THEN /\ pc' = [pc EXCEPT ![i] = "idle"]
            /\ UNCHANGED results
       ELSE /\ pc' = [pc EXCEPT ![i] = "failed"]
            /\ results' = [results EXCEPT ![i] = Append(@, ErrorResult(i, e))]

\* A fault raised inside the try block of invocation i.
Raise(i, e) ==
  /\ caught' = [caught EXCEPT ![i] = e]
  /\ IF IsCaught(e)
       THEN /\ pc' = [pc EXCEPT ![i] = "failed"]
            /\ results' = [results EXCEPT ![i] = Append(@, ErrorResult(i, e))]
       ELSE /\ pc' = [pc EXCEPT ![i] = "raised"]
            /\ UNCHANGED results

\* The framework calls run_command(c); it runs to the first await.
\* Invocations are numbered in the order they are issued.
Call(i, c) ==
  /\ pc[i] = "idle"
  /\ \A j \in Inv : j < i => pc[j] # "idle"
  /\ pc' = [pc EXCEPT ![i] = "spawning"]
  /\ command' = [command EXCEPT ![i] = c]
  /\ attempts' = [attempts EXCEPT ![i] = @ + 1]
  /\ UNCHANGED <<process, results, caught>>

\* create_subprocess_shell completes: the child exists, its pipes are open.
SpawnDone(i) ==
  /\ pc[i] = "spawning" /\ Runnable(i)
  /\ pc' = [pc EXCEPT ![i] = "running"]
  /\ process' = [process EXCEPT ![i] =
       [out |-> <<>>, err |-> <<>>, outEOF |-> FALSE, errEOF |-> FALSE,
        term |-> StillRunning]]
  /\ UNCHANGED <<command, results, caught, attempts>>

\* create_subprocess_shell raises: no child was created.
SpawnFault(i, e) ==
  /\ pc[i] = "spawning" /\ Runnable(i)
  /\ Raise(i, e)
  /\ UNCHANGED <<command, process, attempts>>

\* The child writes a byte to its stdout or its stderr.
ChildWrite(i, s, b) ==
  /\ pc[i] = "running"
  /\ Written(MaxInv) < MaxBytes
  /\ \/ /\ s = "out" /\ ~process[i].outEOF
        /\ process' = [process EXCEPT ![i].out = Append(@, b)]
     \/ /\ s = "err" /\ ~process[i].errEOF
        /\ process' = [process EXCEPT ![i].err = Append(@, b)]
  /\ UNCHANGED <<pc, command, results, caught, attempts>>

\* The last writer of a pipe closes it.
ChildClose(i, s) ==
  /\ pc[i] = "running"
  /\ \/ /\ s = "out" /\ ~process[i].outEOF
        /\ process' = [process EXCEPT ![i].outEOF = TRUE]
     \/ /\ s = "err" /\ ~process[i].errEOF
        /\ process' = [process EXCEPT ![i].errEOF = TRUE]
  /\ UNCHANGED <<pc, command, results, caught, attempts>>

\* The child terminates, unless its command never does.
ChildTerminate(i, t) ==
  /\ pc[i] = "running"
  /\ process[i].term = StillRunning /\ command[i] \notin NeverTerminating
  /\ process' = [process EXCEPT ![i].term = t]
  /\ UNCHANGED <<pc, command, results, caught, attempts>>

\* communicate() raises while the invocation is suspended in it.
CommunicateFault(i, e) ==
  /\ pc[i] = "running" /\ Runnable(i)
  /\ Raise(i, e)
  /\ UNCHANGED <<command, process, attempts>>

\* communicate() returns; the rest of the try block runs: both decodes, in
\* the order of the mapping's entries, then the return.
Complete(i) ==
  /\ pc[i] = "running" /\ Runnable(i)
  /\ CommunicateDone(Proc(i))
  /\ LET o == DecodeOrEmpty(Proc(i).out)
         e == DecodeOrEmpty(Proc(i).err)
     IN IF ~o.ok THEN Raise(i, o.fault)
        ELSE IF ~e.ok THEN Raise(i, e.fault)
        ELSE /\ pc' = [pc EXCEPT ![i] = "completed"]
             /\ results' = [results EXCEPT ![i] =
                              Append(@, NormalResult(i, o.text, e.text))]
             /\ UNCHANGED caught
  /\ UNCHANGED <<command, process, attempts>>

Next ==
  \E i \in Inv :
    \/ \E c \in Commands : Call(i, c)
    \/ SpawnDone(i)
    \/ \E e \in SpawnFaults : SpawnFault(i, e)
    \/ \E s \in {"out", "err"}, b \in Bytes : ChildWrite(i, s, b)
    \/ \E s \in {"out", "err"} : ChildClose(i, s)
    \/ \E t \in Terminations : ChildTerminate(i, t)
    \/ \E e \in CommunicateFaults : CommunicateFault(i, e)
    \/ Complete(i)

Spec == Init /\ [][Next]_vars

\* The event loop resumes a task whose awaited operation is done, and the
\* operating system answers every spawn request (with a child or a fault).
\* Nothing makes a child write, close its pipes or terminate.
Fairness ==
  \A i \in Inv :
    /\ WF_vars(Complete(i))
    /\ WF_vars(SpawnDone(i) \/ (\E e \in SpawnFaults : SpawnFault(i, e)))

FairSpec == Spec /\ Fairness

\* ------------------------------------------------------------ properties
\* str.encode(): the UTF-8 bytes of a text (code points below 0x800).
RECURSIVE Utf8Encode(_)
Utf8Encode(t) ==
  IF t = <<>> THEN <<>>
  ELSE LET c == Head(t) IN
    (IF c < 128 THEN <<c>> ELSE <<192 + (c \div 64), 128 + (c % 64)>>)
      \o Utf8Encode(Tail(t))

Spawned(i) == process[i] # NoProcess
Returned(i) == Len(results[i]) = 1
Suspended(i) == pc[i] \in {"spawning", "running"}
Drained(i) == pc[i] = "running" /\ CommunicateDone(process[i])
Hung(i) == Spawned(i) /\ command[i] \in NeverTerminating

C2_FailureShape ==
  \A i \in Inv :
    pc[i] = "failed" =>
      results[i] = << [stdout |-> <<>>,
                       stderr |-> ErrPrefix \o caught[i].desc,
                       return_code |-> -1] >>

\* A decode fault of stderr after the child exited with 0 and wrote a
\* decodable stdout.
C2_Witness ==
  \E i \in Inv :
    /\ pc[i] = "failed" /\ caught[i].at = "decode"
    /\ process[i].term = [how |-> "exit", n |-> 0]
    /\ process[i].out = <<97>>
    /\ process[i].err # <<>>

\* C3: on the normal path the result carries the child's exit status and
\* the texts whose UTF-8 encoding is what the child wrote (nothing written
\* gives ""); an exit status, zero or not, is never reported as -1, and an
\* invocation whose child exited is in the failure shape only for a fault
\* of communicate or of a decode.
C3_NormalResult ==
  \A i \in Inv :
    /\ pc[i] = "completed" =>
         /\ Returned(i)
         /\ Utf8Encode(results[i][1].stdout) = process[i].out
         /\ Utf8Encode(results[i][1].stderr) = process[i].err
         /\ (process[i].out = <<>> => results[i][1].stdout = <<>>)
         /\ (process[i].err = <<>> => results[i][1].stderr = <<>>)
         /\ (process[i].term.how = "exit" =>
               /\ results[i][1].return_code = process[i].term.n
               /\ results[i][1].return_code # -1)
    /\ (pc[i] = "failed" /\ Spawned(i)) => caught[i].at \in {"communicate", "decode"}
    /\ (pc[i] = "failed" /\ caught[i].at = "decode") =>
         \/ process[i].out # <<>> /\ ~Utf8Decode(process[i].out, 1, <<>>).ok
         \/ process[i].err # <<>> /\ ~Utf8Decode(process[i].err, 1, <<>>).ok

C3_Witness ==
  \E i \in Inv :
    /\ pc[i] = "completed"
    /\ process[i].term = [how |-> "exit", n |-> 1]
    /\ process[i].out = <<195, 169>>
    /\ results[i][1] = [stdout |-> <<233>>, stderr |-> <<>>, return_code |-> 1]

\* C4: in every returned result, return_code = -1 if and only if the except
\* branch produced it.
C4_SentinelReserved ==
  \A i \in Inv :
    Returned(i) => (results[i][1].return_code = -1 <=> pc[i] = "failed")

C7_StepsInOrder ==
  \A i \in Inv :
    /\ pc[i] = "completed" =>
         /\ attempts[i] = 1
         /\ Spawned(i)
         /\ process[i].term # StillRunning
         /\ process[i].outEOF /\ process[i].errEOF
    /\ pc[i] = "running" => Spawned(i) /\ results[i] = <<>>
    /\ pc[i] \in {"idle", "spawning"} => ~Spawned(i) /\ results[i] = <<>>

\* One invocation has returned normally while another one's child is still
\* running with a pipe open.
C7_Witness ==
  \E i, j \in Inv :
    /\ i # j
    /\ pc[i] = "completed"
    /\ pc[j] = "running" /\ process[j].term = StillRunning /\ ~process[j].outEOF

C9_SpawnOnce ==
  [][ \A i \in Inv :
        /\ attempts'[i] <= 1
        /\ (Spawned(i) => process'[i] # NoProcess /\ attempts'[i] = 1)
        /\ (caught'[i].at = "spawn" => process'[i] = NoProcess)
        /\ (pc[i] # "failed" /\ pc'[i] = "failed") =>
             /\ attempts'[i] = attempts[i]
             /\ process' = process
             /\ command' = command
             /\ \A j \in Inv : j # i => pc'[j] = pc[j] /\ results'[j] = results[j]
    ]_vars

C9_Witness ==
  \E i, j \in Inv :
    /\ pc[i] = "failed" /\ caught[i].at = "spawn" /\ ~Spawned(i) /\ attempts[i] = 1
    /\ pc[j] = "failed" /\ caught[j].at = "communicate" /\ Spawned(j) /\ attempts[j] = 1

\* The faults the decodes of an invocation's two captured streams raise.
OwnDecodeFaults(i) ==
  { d.fault : d \in { x \in {DecodeOrEmpty(process[i].out), DecodeOrEmpty(process[i].err)} : ~x.ok } }

\* What belongs to one invocation.
Own(i) == <<pc[i], command[i], process[i], results[i], caught[i], attempts[i]>>

\* C10: every step changes what belongs to at most one invocation; a result
\* returned by a step is made from that invocation's own child (its bytes and
\* its termination) or its own fault.
C10_Isolation ==
  [][ \A i \in Inv :
        /\ Own(i)' # Own(i) => \A j \in Inv : j # i => Own(j)' = Own(j)
        /\ (pc[i] # "completed" /\ pc'[i] = "completed") =>
             /\ Utf8Encode(results'[i][1].stdout) = process[i].out
             /\ Utf8Encode(results'[i][1].stderr) = process[i].err
             /\ process[i].term # StillRunning
             /\ results'[i][1].return_code = Returncode(process[i])
        /\ (pc[i] # "failed" /\ pc'[i] = "failed") =>
             /\ results'[i][1].stderr = ErrPrefix \o caught'[i].desc
             /\ caught'[i].at = "decode" =>
                  caught'[i] \in OwnDecodeFaults(i)
    ]_vars

\* The later invocation completed first, with output differing from what
\* the earlier one's child has written.
C10_Witness ==
  \E i, j \in Inv :
    /\ i < j
    /\ pc[j] = "completed" /\ pc[i] = "running"
    /\ process[i].out # process[j].out

====
